---- MODULE Spec2Model ----
(***************************************************************************)
(* heic2avif-py: the /convert and /health handlers of app/main.py and the  *)
(* fallback chain of app/converter.py, as a state machine.                 *)
(*                                                                         *)
(* Byte strings are modelled by their length (and, for encoder output, by  *)
(* the strategy attempt that wrote them); file names are sequences of      *)
(* one-character strings; floats rounded to d decimals are integers in     *)
(* units of 10^-d.                                                         *)
(***************************************************************************)
EXTENDS Integers, Sequences, FiniteSets, TLC

\* ------------------------------------------------------------------ bounds
\* number of concurrent POST /convert requests
NumRequests == 2
\* largest byte length an encoder writes to its output file
MaxAvifLen == 1

Requests == 1..NumRequests
NoOwner == 0

\* ----------------------------------------------------------------- strings
Upper == [c \in {"h", "e", "i", "c", "f", "a", "p", "n", "g", "."} |->
            CASE c = "h" -> "H" [] c = "e" -> "E" [] c = "i" -> "I"
              [] c = "c" -> "C" [] c = "f" -> "F" [] c = "a" -> "A"
              [] c = "p" -> "P" [] c = "n" -> "N" [] c = "g" -> "G"
              [] OTHER -> c]

\* str.lower(), character by character
LowerChar(c) ==
    IF \E l \in DOMAIN Upper : Upper[l] = c /\ l # c
    THEN CHOOSE l \in DOMAIN Upper : Upper[l] = c
    ELSE c

Lower(s) == [i \in 1..Len(s) |-> LowerChar(s[i])]

\* str.endswith(suffix)
EndsWith(s, suffix) ==
    /\ Len(suffix) <= Len(s)
    /\ SubSeq(s, Len(s) - Len(suffix) + 1, Len(s)) = suffix

DotHeic == <<".", "h", "e", "i", "c">>
DotHeif == <<".", "h", "e", "i", "f">>

\* filename.lower().endswith(('.heic', '.heif'))
HasHeicSuffix(s) == EndsWith(Lower(s), DotHeic) \/ EndsWith(Lower(s), DotHeif)

\* an Optional[str]: None, or a string
None == [given |-> FALSE, s |-> <<>>]
Some(s) == [given |-> TRUE, s |-> s]
\* Python truthiness of an Optional[str]: None and "" are falsy
Truthy(o) == o.given /\ o.s # <<>>
\* a or b or default
OrElse(a, b, default) == IF Truthy(a) THEN a.s ELSE IF Truthy(b) THEN b.s ELSE default

ImageDotHeic == <<"i", "m", "a", "g", "e", ".", "h", "e", "i", "c">>

\* str.replace(old, new): leftmost non-overlapping occurrences, case-sensitive
RECURSIVE Replace(_, _, _)
Replace(s, old, new) ==
    IF Len(s) < Len(old) THEN s
    ELSE IF SubSeq(s, 1, Len(old)) = old
         THEN new \o Replace(SubSeq(s, Len(old) + 1, Len(s)), old, new)
         ELSE <<s[1]>> \o Replace(SubSeq(s, 2, Len(s)), old, new)

DotAvif == <<".", "a", "v", "i", "f">>

\* ------------------------------------------------------------- size limit
KiB == 1024
MiB == KiB * KiB
\* int(os.getenv("MAX_FILE_SIZE_MB", "100"))
max_file_size_mb == 100
LimitBytes == max_file_size_mb * MiB

\* round(n / d, 0) for naturals n, d > 0: Python rounds an exact tie to even
RoundHalfEven(n, d) ==
    LET q == n \div d
        rem == n % d
    IN  IF 2 * rem > d THEN q + 1
        ELSE IF 2 * rem < d THEN q
        ELSE IF q % 2 = 0 THEN q ELSE q + 1

\* heic_size_mb = round(len(heic_data) / 1024 / 1024, 2), in hundredths of a MB
heic_size_mb(len) ==
    (len \div MiB) * 100 + RoundHalfEven((len % MiB) * 100, MiB)

\* if heic_size_mb > max_file_size_mb
TooLarge(len) == heic_size_mb(len) > max_file_size_mb * 100

\* ---------------------------------------------------------- external tools
\* What one subprocess.run of avifenc or magick does: it cannot be started
\* (subprocess.run raises), or it runs, exits with rc, and has written
\* nothing to its output path (wrote = -1) or a file of wrote bytes.
NotStarted == [started |-> FALSE, rc |-> 1, wrote |-> -1]
ToolOutcomes ==
    {NotStarted} \cup
    [started : {TRUE}, rc : {0, 1}, wrote : {-1} \cup (0..MaxAvifLen)]

\* Image.open(...).save(intermediate.jpg): done, or an exception
DecodeOutcomes == {"saved", "exception"}

\* ------------------------------------------------------- scratch directory
NoFile == [by |-> 0, len |-> -1]
NoDir == [exists |-> FALSE, input_heic |-> FALSE, input_heif |-> FALSE,
          intermediate |-> FALSE, output |-> NoFile]
\* tempfile.TemporaryDirectory(): a fresh, empty directory
EmptyDir == [NoDir EXCEPT !.exists = TRUE]

\* input_path.write_bytes(heic_data) of the three functions: pillow_fallback
\* always writes input.heic, the other two choose by the file name
WriteInput(dir, fn, name) ==
    IF fn # "pillow" /\ EndsWith(Lower(name), DotHeif)
    THEN [dir EXCEPT !.input_heif = TRUE]
    ELSE [dir EXCEPT !.input_heic = TRUE]

\* the tool's effect on output_path; k is the attempt that ran it
WriteOutput(dir, k, o) ==
    IF o.started /\ o.wrote >= 0
    THEN [dir EXCEPT !.output = [by |-> k, len |-> o.wrote]]
    ELSE dir

\* --------------------------------------------------------- fallback chain
\* A converter state c: the Python call stack of the three functions (site
\* is where the frame executes: its try body or its except handler), the
\* strategy attempts started so far, the scratch directory, the outcome of
\* convert_heic_to_avif_variants once it has returned or raised, how many
\* attempts have failed, and the reason the latest one logged.
Pending == [kind |-> "pending", by |-> 0, len |-> -1, at |-> 0, why |-> "-"]
Bytes(f) == [kind |-> "bytes", by |-> f.by, len |-> f.len, at |-> 0, why |-> "-"]
\* RuntimeError(f"All conversion methods failed. Last error: {str(e)}")
AllFailed(at, why) == [kind |-> "error", by |-> 0, len |-> -1, at |-> at, why |-> why]

\* no strategy attempt has failed yet
NoFailure == [at |-> 0, why |-> "-"]

NewConv == [stack |-> <<>>, attempts |-> <<>>, dir |-> NoDir, result |-> Pending,
            failures |-> 0, last |-> NoFailure]

Top(c) == c.stack[Len(c.stack)]
Pop(c) == [c EXCEPT !.stack = SubSeq(@, 1, Len(@) - 1)]
\* the function each except handler (and each non-zero exit) falls back to
Fallback(fn) == IF fn = "variants" THEN "pillow" ELSE "imagemagick"

\* a call of one of the three functions: one more strategy attempt
Enter(c, name, fn) ==
    [c EXCEPT !.stack = Append(@, [fn |-> fn, site |-> "try"]),
              !.attempts = Append(@, fn),
              !.dir = WriteInput(@, fn, name)]

\* `return <fallback>(...)` written in the frame's try body
CallFromTry(c, name) == Enter(c, name, Fallback(Top(c).fn))

\* `return <fallback>(...)` written in the frame's except handler
CallFromExcept(c, name) ==
    Enter([c EXCEPT !.stack[Len(c.stack)].site = "except"], name, Fallback(Top(c).fn))

\* (a variant in which a frame catches an exception raised in its own except
\* handler and falls back once more)
Propagate_CatchAgain(c, name, err) ==
    IF c.stack = <<>> THEN [c EXCEPT !.result = err]
    ELSE CallFromExcept(c, name)

\* an exception raised by a callee reaches the frames below it: a frame that
\* made the call in its try body catches it (except Exception) and falls back
\* again; one that made it in its except handler lets it through
RECURSIVE Propagate(_, _, _)
Propagate(c, name, err) ==
    IF c.stack = <<>> THEN [c EXCEPT !.result = err]
    ELSE IF Top(c).site = "try" THEN CallFromExcept(c, name)
    ELSE Propagate(Pop(c), name, err)

\* attempt k fails: the reason its function prints
Fail(c, k, why) ==
    [c EXCEPT !.failures = @ + 1, !.last = [at |-> k, why |-> why]]

\* every caller returns its callee's value unchanged
Return(c, f) == [c EXCEPT !.stack = <<>>, !.result = Bytes(f)]

\* (a variant whose functions do not compute the ratio before returning)
ReadFailure_NoDivision(c, size) ==
    IF c.dir.output = NoFile THEN "output file missing" ELSE "-"

\* lines 64-74, 131-136, 179-184: what read_bytes() and the size log line
\* raise ("-" when they raise nothing)
ReadFailure(c, size) ==
    IF c.dir.output = NoFile THEN "output file missing"
    ELSE IF size = 0 THEN "division by zero"
    ELSE "-"

convert_heic_to_avif_variants(c, name, size, o) ==
    LET k == Len(c.attempts)
        c1 == [c EXCEPT !.dir = WriteOutput(@, k, o)]
        except(at, why) == CallFromExcept(Fail(c1, at, why), name)
    IN  IF ~o.started THEN except(k, "avifenc not started")
        ELSE IF o.rc # 0 THEN CallFromTry(Fail(c1, k, "avifenc failed"), name)
        ELSE IF ReadFailure(c1, size) # "-" THEN except(k, ReadFailure(c1, size))
        ELSE Return(c1, c1.dir.output)

convert_heic_to_avif_pillow_fallback(c, name, size, d, o) ==
    LET k == Len(c.attempts)
        except(at, why) == CallFromExcept(Fail(c, at, why), name)
    IN  IF d = "exception" THEN except(k, "decode failed")
        ELSE LET c1 == [c EXCEPT !.dir.intermediate = TRUE]
                 c2 == [c1 EXCEPT !.dir = WriteOutput(@, k, o)]
                 except2(at, why) == CallFromExcept(Fail(c2, at, why), name)
             IN  IF ~o.started THEN except2(k, "avifenc not started")
                 ELSE IF o.rc # 0
                      THEN CallFromTry(Fail(c2, k, "avifenc failed in fallback"), name)
                 ELSE IF ReadFailure(c2, size) # "-" THEN except2(k, ReadFailure(c2, size))
                 ELSE Return(c2, c2.dir.output)

\* (a variant that raises "All conversion methods failed" without str(e))
convert_heic_to_avif_imagemagick_NoReason(c, name, size, o) ==
    LET k == Len(c.attempts)
        c1 == [c EXCEPT !.dir = WriteOutput(@, k, o)]
        except(at, why) == Propagate(Pop(Fail(c1, at, why)), name, AllFailed(0, "-"))
    IN  IF ~o.started THEN except(k, "magick not started")
        ELSE IF o.rc # 0 THEN except(k, "ImageMagick conversion failed")
        ELSE IF ReadFailure(c1, size) # "-" THEN except(k, ReadFailure(c1, size))
        ELSE Return(c1, c1.dir.output)

convert_heic_to_avif_imagemagick(c, name, size, o) ==
    LET k == Len(c.attempts)
        c1 == [c EXCEPT !.dir = WriteOutput(@, k, o)]
        except(at, why) == Propagate(Pop(Fail(c1, at, why)), name, AllFailed(at, why))
    IN  IF ~o.started THEN except(k, "magick not started")
        ELSE IF o.rc # 0 THEN except(k, "ImageMagick conversion failed")
        ELSE IF ReadFailure(c1, size) # "-" THEN except(k, ReadFailure(c1, size))
        ELSE Return(c1, c1.dir.output)

\* (a variant that makes the directory with mkdtemp and never removes it)
Cleanup_Never(c) == c

\* leaving `with tempfile.TemporaryDirectory()` removes the directory
Cleanup(c) == IF c.stack = <<>> THEN [c EXCEPT !.dir = NoDir] ELSE c

\* ---------------------------------------------------------------- requests
A_heic == <<"a", ".", "h", "e", "i", "c">>
A_HEIF == <<"a", ".", "H", "E", "I", "F">>
A_png  == <<"a", ".", "p", "n", "g">>
B_HEIC == <<"b", ".", "H", "e", "i", "c">>
B_heic_png == <<"b", ".", "h", "e", "i", "c", ".", "p", "n", "g">>

ContentTypes == {"image/heic", "image/heif", "image/png"}
\* the originalFilename form field and the uploaded file's own name
\* (FastAPI hands an empty form field to the handler as None)
FormNames == {None, Some(A_heic), Some(A_HEIF), Some(A_png)}
UploadNames == {None, Some(B_HEIC), Some(B_heic_png)}
\* len(heic_data): around zero, a few bytes, and around the size limit
Sizes == {0, 1, 3, LimitBytes, LimitBytes + 1, LimitBytes + 5242, LimitBytes + 5243}

Uploads ==
    [content_type : ContentTypes, originalFilename : FormNames,
     image_filename : UploadNames, size : Sizes]
NoUpload == [content_type |-> "-", originalFilename |-> None,
             image_filename |-> None, size |-> 0]

\* (a variant that tests the suffix without .lower())
IsHeic_CaseSensitive(u) ==
    \/ u.content_type \in {"image/heic", "image/heif"}
    \/ LET filename == OrElse(u.originalFilename, u.image_filename, <<>>)
       IN  EndsWith(filename, DotHeic) \/ EndsWith(filename, DotHeif)

\* lines 69-73: the request is refused with 400 unless this holds
IsHeic(u) ==
    \/ u.content_type \in {"image/heic", "image/heif"}
    \/ HasHeicSuffix(OrElse(u.originalFilename, u.image_filename, <<>>))

\* line 86: filename = originalFilename or image.filename or "image.heic"
Filename(u) == OrElse(u.originalFilename, u.image_filename, ImageDotHeic)

\* (a variant that leaves out the `1 -`: the size ratio, not the saving)
compression_ratio_NoComplement(converted_size, original_size) ==
    RoundHalfEven(1000 * converted_size, original_size)

\* line 100: round((1 - converted_size / original_size) * 100, 1), in tenths
compression_ratio(converted_size, original_size) ==
    1000 - RoundHalfEven(1000 * converted_size, original_size)

\* ---------------------------------------------------------------- callback
NoError == Pending
ZeroDivisionError == [kind |-> "error", by |-> 0, len |-> -1, at |-> 0,
                      why |-> "division by zero"]
CallbackRaised == [kind |-> "error", by |-> 0, len |-> -1, at |-> 0,
                   why |-> "callback raised"]

\* (a variant that leaves success=True out of the call: the default is False)
SuccessPayload_DefaultFlag(u, data) ==
    [originalFilename |-> Filename(u),
     convertedFilename |->
         Some(Replace(Replace(Filename(u), DotHeic, DotAvif), DotHeif, DotAvif)),
     success |-> FALSE,
     fileSize |-> data.len,
     originalSize |-> u.size,
     compressionRatio |-> 1000 - RoundHalfEven(1000 * data.len, u.size),
     error |-> NoError]

\* lines 115-125: the success callback's arguments (None is -1 for a number)
SuccessPayload(u, data) ==
    [originalFilename |-> Filename(u),
     convertedFilename |->
         Some(Replace(Replace(Filename(u), DotHeic, DotAvif), DotHeif, DotAvif)),
     success |-> TRUE,
     fileSize |-> data.len,
     originalSize |-> u.size,
     compressionRatio |-> compression_ratio(data.len, u.size),
     error |-> NoError]

\* (a variant that leaves error=str(e) out of the call)
FailurePayload_NoError(u, e) ==
    [originalFilename |-> Filename(u), convertedFilename |-> None,
     success |-> FALSE, fileSize |-> -1, originalSize |-> -1,
     compressionRatio |-> -1, error |-> NoError]

\* lines 144-151: the failure callback's arguments
FailurePayload(u, e) ==
    [originalFilename |-> Filename(u), convertedFilename |-> None,
     success |-> FALSE, fileSize |-> -1, originalSize |-> -1,
     compressionRatio |-> -1, error |-> e]

\* what the POST to {PHOTOVAULT_API_URL}/conversion-complete does
CallbackOutcomes == {"200", "non-200", "timeout", "network error"}

\* (a variant without the final `except Exception`: a network error escapes)
send_conversion_callback_Raises(outcome) ==
    IF outcome = "200" THEN "True"
    ELSE IF outcome = "network error" THEN "raise" ELSE "False"

\* lines 202-223: every outcome of the POST becomes True or False
send_conversion_callback(outcome) == IF outcome = "200" THEN "True" ELSE "False"

\* --------------------------------------------------------------- responses
NoResponse == [status |-> 0, original_size |-> -1, converted_size |-> -1,
               compression_ratio |-> -1, avif_data |-> NoFile, detail |-> NoError]
Rejected(status) == [NoResponse EXCEPT !.status = status]
\* lines 131-138
Ok200(u, data) ==
    [status |-> 200, original_size |-> u.size, converted_size |-> data.len,
     compression_ratio |-> compression_ratio(data.len, u.size),
     avif_data |-> [by |-> data.by, len |-> data.len], detail |-> NoError]
\* line 161: HTTPException(500, f"Conversion failed: {str(e)}")
Failed500(e) == [NoResponse EXCEPT !.status = 500, !.detail = e]

\* ------------------------------------------------------------------- state
VARIABLES
    pc,         \* per request: where its convert_image coroutine is
    upload,     \* per request: what the client sent
    loop,       \* the request whose handler occupies the event loop thread
    conv,       \* per request: the converter state of its convert call
    stage,      \* per request: "try" (lines 89-138) or "except" (140-161)
    callbacks,  \* per request: the payloads POSTed to the callback URL
    posted,     \* per request: how each of those POSTs ended
    response,   \* per request: the HTTP response returned
    hpc,        \* the GET /health request: idle, pending or done
    hresponse   \* the GET /health response

vars == <<pc, upload, loop, conv, stage, callbacks, posted, response, hpc, hresponse>>

NoHealth == [status |-> 0, healthy |-> FALSE, avifenc |-> FALSE]

Init ==
    /\ pc = [r \in Requests |-> "idle"]
    /\ upload = [r \in Requests |-> NoUpload]
    /\ loop = NoOwner
    /\ conv = [r \in Requests |-> NewConv]
    /\ stage = [r \in Requests |-> "-"]
    /\ callbacks = [r \in Requests |-> <<>>]
    /\ posted = [r \in Requests |-> <<>>]
    /\ response = [r \in Requests |-> NoResponse]
    /\ hpc = "idle"
    /\ hresponse = NoHealth

\* A coroutine runs on the single event loop thread (uvicorn.run, one
\* process) from one await to the next; it can be started or resumed only
\* when no other handler occupies the thread.
LoopFree == loop = NoOwner

\* a client sends POST /convert
Receive(r, u) ==
    /\ pc[r] = "idle"
    /\ pc' = [pc EXCEPT ![r] = "received"]
    /\ upload' = [upload EXCEPT ![r] = u]
    /\ UNCHANGED <<loop, conv, stage, callbacks, posted, response, hpc, hresponse>>

\* lines 62-75: the type check, up to `await image.read()`
CheckType(r) ==
    /\ pc[r] = "received"
    /\ LoopFree
    /\ IF IsHeic(upload[r])
       THEN /\ pc' = [pc EXCEPT ![r] = "reading"]
            /\ UNCHANGED response
       ELSE /\ pc' = [pc EXCEPT ![r] = "done"]
            /\ response' = [response EXCEPT ![r] = Rejected(400)]
    /\ UNCHANGED <<upload, loop, conv, stage, callbacks, posted, hpc, hresponse>>

\* lines 75-95 and converter lines 24-46: the size check, then the call of
\* convert_heic_to_avif_variants up to its subprocess.run, which blocks the
\* thread: the handler keeps the event loop
CheckSize(r) ==
    /\ pc[r] = "reading"
    /\ LoopFree
    /\ IF TooLarge(upload[r].size)
       THEN /\ pc' = [pc EXCEPT ![r] = "done"]
            /\ response' = [response EXCEPT ![r] = Rejected(413)]
            /\ UNCHANGED <<loop, conv, stage>>
       ELSE /\ pc' = [pc EXCEPT ![r] = "converting"]
            /\ loop' = r
            /\ stage' = [stage EXCEPT ![r] = "try"]
            /\ conv' = [conv EXCEPT ![r] =
                          Enter([NewConv EXCEPT !.dir = EmptyDir],
                                Filename(upload[r]), "variants")]
            /\ UNCHANGED response
    /\ UNCHANGED <<upload, callbacks, posted, hpc, hresponse>>

\* The handler once convert has returned or raised, up to the await of the
\* callback POST (lines 97-125, or 140-151): the payload is sent and the
\* event loop is released.
AfterConvert(r, c) ==
    LET u == upload[r]
        returned == c.result.kind = "bytes"
        \* line 100 divides by original_size
        inTry == returned /\ u.size # 0
        payload ==
            IF inTry THEN SuccessPayload(u, c.result)
            ELSE IF returned THEN FailurePayload(u, ZeroDivisionError)
            ELSE FailurePayload(u, c.result)
    IN  /\ pc' = [pc EXCEPT ![r] = "callback"]
        /\ loop' = NoOwner
        /\ stage' = [stage EXCEPT ![r] = IF inTry THEN "try" ELSE "except"]
        /\ callbacks' = [callbacks EXCEPT ![r] = Append(@, payload)]

\* one strategy attempt has run: the converter goes on, or convert is over
Step(r, c) ==
    /\ conv' = [conv EXCEPT ![r] = Cleanup(c)]
    /\ IF c.result = Pending
       THEN UNCHANGED <<pc, loop, stage, callbacks>>
       ELSE AfterConvert(r, c)
    /\ UNCHANGED <<upload, posted, response, hpc, hresponse>>

Running(r, fn) ==
    /\ pc[r] = "converting"
    /\ loop = r
    /\ Top(conv[r]).fn = fn

\* strategy 1: avifenc on the HEIC input
RunDirect(r, o) ==
    /\ Running(r, "variants")
    /\ Step(r, convert_heic_to_avif_variants(
                  conv[r], Filename(upload[r]), upload[r].size, o))

\* strategy 2: Pillow writes intermediate.jpg, avifenc encodes it
RunPillow(r, d, o) ==
    /\ Running(r, "pillow")
    /\ Step(r, convert_heic_to_avif_pillow_fallback(
                  conv[r], Filename(upload[r]), upload[r].size, d, o))

\* strategy 3: magick on the HEIC input
RunImageMagick(r, o) ==
    /\ Running(r, "imagemagick")
    /\ Step(r, convert_heic_to_avif_imagemagick(
                  conv[r], Filename(upload[r]), upload[r].size, o))

\* The callback POST is over and the handler resumes (lines 127-138, or
\* 153-161). An exception out of send_conversion_callback in the try block
\* would be caught at line 140 like any other.
CallbackDone(r, outcome) ==
    /\ pc[r] = "callback"
    /\ LoopFree
    /\ posted' = [posted EXCEPT ![r] = Append(@, outcome)]
    /\ LET sent == send_conversion_callback(outcome)
           u == upload[r]
       IN  IF sent = "raise" /\ stage[r] = "try"
           THEN /\ stage' = [stage EXCEPT ![r] = "except"]
                /\ callbacks' = [callbacks EXCEPT ![r] =
                                   Append(@, FailurePayload(u, CallbackRaised))]
                /\ UNCHANGED <<pc, response>>
           ELSE /\ pc' = [pc EXCEPT ![r] = "done"]
                /\ response' = [response EXCEPT ![r] =
                      IF stage[r] = "try" THEN Ok200(u, conv[r].result)
                      ELSE IF sent = "raise" THEN Failed500(CallbackRaised)
                      ELSE Failed500(callbacks[r][Len(callbacks[r])].error)]
                /\ UNCHANGED <<stage, callbacks>>
    /\ UNCHANGED <<upload, loop, conv, hpc, hresponse>>

\* a client sends GET /health
HealthArrives ==
    /\ hpc = "idle"
    /\ hpc' = "pending"
    /\ UNCHANGED <<pc, upload, loop, conv, stage, callbacks, posted, response, hresponse>>

\* what subprocess.run(["avifenc", "--version"], timeout=5) does
ProbeOutcomes == {"exit 0", "exit 1", "absent", "timeout"}

\* (a variant without the try/except around the probe: FileNotFoundError and
\* TimeoutExpired escape and the framework answers 500)
health_check_NoExcept(probe) ==
    IF probe \in {"absent", "timeout"}
    THEN [status |-> 500, healthy |-> FALSE, avifenc |-> FALSE]
    ELSE [status |-> 200, healthy |-> probe = "exit 0", avifenc |-> probe = "exit 0"]

\* lines 24-53: health_check has no await and runs in one piece
health_check(probe) ==
    LET avifenc == probe = "exit 0"
    IN  [status |-> 200, healthy |-> avifenc, avifenc |-> avifenc]

HealthCheck(probe) ==
    /\ hpc = "pending"
    /\ LoopFree
    /\ hpc' = "done"
    /\ hresponse' = health_check(probe)
    /\ UNCHANGED <<pc, upload, loop, conv, stage, callbacks, posted, response>>

\* the service with the requests R, which send uploads of U, external tools
\* that behave as O and a callback receiver that behaves as B
Serve(R, U, O, B) ==
    \/ \E r \in R, u \in U : Receive(r, u)
    \/ \E r \in R : CheckType(r)
    \/ \E r \in R : CheckSize(r)
    \/ \E r \in R, o \in O : RunDirect(r, o)
    \/ \E r \in R, d \in DecodeOutcomes, o \in O : RunPillow(r, d, o)
    \/ \E r \in R, o \in O : RunImageMagick(r, o)
    \/ \E r \in R, outcome \in B : CallbackDone(r, outcome)
    \/ HealthArrives
    \/ \E probe \in ProbeOutcomes : HealthCheck(probe)

\* one POST /convert with any upload and any tool behaviour, and GET /health
Next == Serve({1}, Uploads, ToolOutcomes, CallbackOutcomes)

Spec == Init /\ [][Next]_vars

\* NumRequests concurrent POST /convert, and GET /health; each tool either
\* fails without output or succeeds with output, the callback succeeds
ConcUploads ==
    {u \in Uploads : /\ u.content_type = "image/heic"
                     /\ u.image_filename = None
                     /\ u.originalFilename = None
                     /\ u.size = 1}
ConcOutcomes == {o \in ToolOutcomes : o.started /\ (o.rc = 0 <=> o.wrote = MaxAvifLen)}

ConcCallbacks == {"200"}

NextConc == Serve(Requests, ConcUploads, ConcOutcomes, ConcCallbacks)

SpecConc == Init /\ [][NextConc]_vars

\* one POST /convert of an accepted upload, empty or not, with any tool
\* behaviour, in which every subprocess.run and every callback POST returns
LiveUploads ==
    {u \in Uploads : /\ u.content_type = "image/heic"
                     /\ u.image_filename = None
                     /\ u.originalFilename = None
                     /\ u.size \in {0, 1}}

NextLive == Serve({1}, LiveUploads, ToolOutcomes, CallbackOutcomes)

\* subprocess.run(..., timeout=60) returns or raises; httpx.post(...,
\* timeout=30.0) returns or raises
ToolsReturn ==
    /\ WF_vars(\E o \in ToolOutcomes : RunDirect(1, o))
    /\ WF_vars(\E d \in DecodeOutcomes, o \in ToolOutcomes : RunPillow(1, d, o))
    /\ WF_vars(\E o \in ToolOutcomes : RunImageMagick(1, o))
    /\ WF_vars(\E outcome \in CallbackOutcomes : CallbackDone(1, outcome))

SpecLive == Init /\ [][NextLive]_vars /\ ToolsReturn

\* ================================================================== claims
Strategies == {"variants", "pillow", "imagemagick"}
\* the priority of a strategy: 1 direct, 2 intermediate JPEG, 3 ImageMagick
Rank(fn) == IF fn = "variants" THEN 1 ELSE IF fn = "pillow" THEN 2 ELSE 3
Times(a, fn) == Cardinality({i \in DOMAIN a : a[i] = fn})
\* convert_heic_to_avif_variants has been called and has returned or raised
ConvertOver(r) == conv[r].result # Pending
\* every strategy attempt of the call has failed
AllAttemptsFailed(r) ==
    /\ conv[r].attempts # <<>>
    /\ conv[r].stack = <<>>
    /\ conv[r].failures = Len(conv[r].attempts)

\* C1: within one call of convert every strategy is attempted at most once,
\* whatever the tools do; when every attempt fails, the Pillow strategy and
\* the ImageMagick strategy have each run exactly once.
C1_EachStrategyAtMostOnce ==
    \A r \in Requests :
        /\ \A fn \in Strategies : Times(conv[r].attempts, fn) <= 1
        /\ AllAttemptsFailed(r) =>
              /\ Times(conv[r].attempts, "pillow") = 1
              /\ Times(conv[r].attempts, "imagemagick") = 1

\* C2: the strategies are started in priority order: the first attempt is the
\* direct one, an attempt is started only when every earlier one has failed,
\* no lower-numbered strategy is started after a higher-numbered one, and
\* once an attempt has succeeded the call is over (nothing further starts).
C2_PriorityOrder ==
    \A r \in Requests :
        LET a == conv[r].attempts
        IN  /\ a # <<>> => a[1] = "variants"
            /\ \A i, j \in DOMAIN a : i < j => Rank(a[i]) <= Rank(a[j])
            /\ conv[r].failures >= Len(a) - 1
            /\ conv[r].result.kind = "bytes" =>
                  /\ conv[r].stack = <<>>
                  /\ conv[r].failures = Len(a) - 1

\* C3: convert never returns a zero-length byte sequence as a successful AVIF
\* result, and POST /convert never answers 200 with zero-length AVIF data.
C3_EmptyOutputIsFailure ==
    \A r \in Requests :
        /\ conv[r].result.kind = "bytes" => conv[r].result.len > 0
        /\ response[r].status = 200 => response[r].avif_data.len > 0

\* C4: when every strategy attempt of a call has failed, convert raises (it
\* does not return bytes); the error it raises carries the failure reason of
\* the last attempt that was executed.
C4_LastFailureReason ==
    \A r \in Requests :
        /\ AllAttemptsFailed(r) => conv[r].result.kind = "error"
        /\ conv[r].result.kind = "error" =>
              /\ AllAttemptsFailed(r)
              /\ conv[r].result.at = Len(conv[r].attempts)
              /\ conv[r].last = [at |-> conv[r].result.at, why |-> conv[r].result.why]

\* the whole chain has run and failed: direct, Pillow, ImageMagick twice,
\* Pillow again, ImageMagick twice more
C4_Witness ==
    \E r \in Requests :
        /\ conv[r].result.kind = "error"
        /\ Len(conv[r].attempts) = 7
        /\ conv[r].result.why = "output file missing"

\* C5: when all strategies fail, POST /convert answers 500 with the error
\* text, and before it answers it has issued one callback with success false,
\* convertedFilename null and the error text.
C5_FailureAnswer ==
    \A r \in Requests :
        conv[r].result.kind = "error" =>
            /\ Len(callbacks[r]) = 1
            /\ callbacks[r][1].success = FALSE
            /\ callbacks[r][1].convertedFilename = None
            /\ callbacks[r][1].error = conv[r].result
            /\ pc[r] \in {"callback", "done"}
            /\ pc[r] = "callback" => response[r] = NoResponse
            /\ pc[r] = "done" =>
                  /\ response[r].status = 500
                  /\ response[r].detail = conv[r].result

C5_Witness ==
    \E r \in Requests :
        /\ pc[r] = "done"
        /\ conv[r].result.kind = "error"
        /\ response[r].status = 500

\* C6: the response of POST /convert is determined by the upload and the
\* outcome of the conversion alone, whatever the callback POST does (200,
\* non-200, timeout, network error); exactly one callback is sent.
C6_CallbackNeverChangesResponse ==
    \A r \in Requests :
        (pc[r] = "done" /\ ConvertOver(r)) =>
            /\ Len(callbacks[r]) = 1
            /\ Len(posted[r]) = 1
            /\ conv[r].result.kind = "bytes" =>
                  /\ response[r].status = 200
                  /\ response[r].avif_data.len = conv[r].result.len
                  /\ response[r].avif_data.by = conv[r].result.by
                  /\ response[r].original_size = upload[r].size
                  /\ response[r].detail = NoError
            /\ conv[r].result.kind = "error" =>
                  /\ response[r].status = 500
                  /\ response[r].detail = conv[r].result

\* a conversion succeeded, its callback POST failed, the answer is 200
C6_Witness ==
    \E r \in Requests :
        /\ pc[r] = "done"
        /\ conv[r].result.kind = "bytes"
        /\ posted[r] = <<"network error">>
        /\ response[r].status = 200

\* C7: a request rejected with 400 or 413 starts no conversion and sends no
\* callback; a request that starts converting sends exactly one callback,
\* after the conversion is over and before the response, with success true
\* exactly when the response is 200 and false exactly when it is 500.
C7_RequestStateMachine ==
    \A r \in Requests :
        /\ response[r].status \in {400, 413} =>
              /\ conv[r].attempts = <<>>
              /\ callbacks[r] = <<>>
        /\ pc[r] = "converting" => (callbacks[r] = <<>> /\ ~ConvertOver(r))
        /\ callbacks[r] # <<>> => ConvertOver(r)
        /\ pc[r] = "callback" => (Len(callbacks[r]) = 1 /\ response[r] = NoResponse)
        /\ (pc[r] = "done" /\ conv[r].attempts # <<>>) =>
              /\ Len(callbacks[r]) = 1
              /\ response[r].status \in {200, 500}
              /\ callbacks[r][1].success <=> response[r].status = 200
              /\ ~callbacks[r][1].success <=> response[r].status = 500

C7_Witness ==
    \E r \in Requests :
        /\ pc[r] = "done"
        /\ response[r].status = 200
        /\ Len(callbacks[r]) = 1
        /\ callbacks[r][1].success

\* s ends in suffix, each character in either case
EndsWithIgnoringCase(s, suffix) ==
    /\ Len(suffix) <= Len(s)
    /\ \A i \in 1..Len(suffix) :
          s[Len(s) - Len(suffix) + i] \in {suffix[i], Upper[suffix[i]]}
\* the name the claim tests: the form field when given, else the file's name
NameOf(u) ==
    IF u.originalFilename.given THEN u.originalFilename.s
    ELSE IF u.image_filename.given THEN u.image_filename.s ELSE <<>>
DeclaredHeic(u) == u.content_type \in {"image/heic", "image/heif"}
NamedHeic(u) ==
    \/ EndsWithIgnoringCase(NameOf(u), DotHeic)
    \/ EndsWithIgnoringCase(NameOf(u), DotHeif)

\* C8: a request is answered 400 exactly when neither its media type is
\* image/heic or image/heif nor its file name ends in .heic or .heif
\* (ignoring case); a 400 comes before any conversion.
C8_TypeValidation ==
    \A r \in Requests :
        pc[r] \notin {"idle", "received"} =>
            /\ response[r].status = 400 <=> ~(DeclaredHeic(upload[r]) \/ NamedHeic(upload[r]))
            /\ response[r].status = 400 => (pc[r] = "done" /\ conv[r].attempts = <<>>)

\* declared image/png, accepted on its upper-case .HEIF name alone
C8_Witness ==
    \E r \in Requests :
        /\ upload[r].content_type = "image/png"
        /\ upload[r].originalFilename = Some(A_HEIF)
        /\ pc[r] = "converting"

\* C9: an upload that passes the type check and is longer than
\* MAX_FILE_SIZE_MB * 1024 * 1024 bytes is answered 413 and no strategy runs.
C9_OverLimitRejected ==
    \A r \in Requests :
        (pc[r] \notin {"idle", "received", "reading"} /\ IsHeic(upload[r])
            /\ upload[r].size > max_file_size_mb * 1024 * 1024) =>
                /\ response[r].status = 413
                /\ conv[r].attempts = <<>>

\* what the code does instead: at most one request is converting at a time
OneConversionAtATime ==
    \A r, q \in Requests : (pc[r] = "converting" /\ pc[q] = "converting") => r = q

\* C10: while one request's handler waits on an external encoder, the
\* handling of another request (POST /convert or GET /health) can go on.
C10_ConversionDoesNotBlock ==
    \A r \in Requests :
        pc[r] = "converting" =>
            /\ hpc = "pending" => ENABLED (\E probe \in ProbeOutcomes : HealthCheck(probe))
            /\ \A q \in Requests \ {r} :
                  /\ pc[q] = "received" => ENABLED CheckType(q)
                  /\ pc[q] = "reading" => ENABLED CheckSize(q)

\* C11: every strategy attempt runs in a scratch directory that holds no file
\* of an earlier attempt of the same request: while attempt k runs, the
\* output file, if there is one, was written by attempt k, and
\* intermediate.jpg exists only in a Pillow attempt; the bytes convert returns
\* were written by the attempt that returned them.
C11_FreshScratchPerAttempt ==
    \A r \in Requests :
        /\ conv[r].stack # <<>> =>
              /\ conv[r].dir.output.by \in {0, Len(conv[r].attempts)}
              /\ conv[r].dir.intermediate => Top(conv[r]).fn = "pillow"
        /\ conv[r].result.kind = "bytes" =>
              conv[r].result.by = Len(conv[r].attempts)

\* C12: once convert has returned or raised, on every exit path, its scratch
\* directory and every file in it are gone; a request in the middle of its
\* convert call has its directory and its input file, and a step that removes
\* one request's directory leaves every other request's directory as it was.
ScratchGoneAfterConvert ==
    \A r \in Requests :
        /\ ConvertOver(r) => conv[r].dir = NoDir
        /\ pc[r] = "converting" =>
              /\ conv[r].dir.exists
              /\ conv[r].dir.input_heic \/ conv[r].dir.input_heif
CleanupIsLocal ==
    \A r, q \in Requests :
        (q # r /\ conv[r].dir # NoDir /\ conv'[r].dir = NoDir) =>
            conv'[q].dir = conv[q].dir
C12_ScratchCleanup == []ScratchGoneAfterConvert /\ [][CleanupIsLocal]_vars
\* one request's convert has raised after seven attempts and its directory is
\* gone while another request is converting with an output file in its own
\* directory
C12_Witness ==
    \E r, q \in Requests :
        /\ conv[r].result.kind = "error" /\ conv[r].dir = NoDir
        /\ Len(conv[r].attempts) = 7
        /\ pc[q] = "converting" /\ conv[q].dir.output # NoFile

\* C13: when every tool invocation and the callback POST return, a request
\* that starts conversion ends with an HTTP response: the chain of strategy
\* attempts is finite (never more than seven attempts), and it ends in
\* returned bytes (200) or in the aggregated failure (500).
ChainIsFinite == \A r \in Requests : Len(conv[r].attempts) <= 7
Answered(r) ==
    /\ pc[r] = "done"
    /\ \/ response[r].status = 200 /\ conv[r].result.kind = "bytes"
       \/ response[r].status = 500 /\ conv[r].result.kind = "error"
C13_ConversionTerminates ==
    /\ []ChainIsFinite
    /\ \A r \in Requests : (pc[r] = "converting") ~> Answered(r)
\* a request answered 500 after the longest chain, seven attempts
C13_Witness ==
    \E r \in Requests :
        Answered(r) /\ response[r].status = 500 /\ Len(conv[r].attempts) = 7

\* C14: GET /health answers 200 whatever the probe does; capabilities.avifenc
\* is true exactly when the probe ran and exited with code zero, and status is
\* "healthy" exactly when capabilities.avifenc is true.
HealthAnswer ==
    \A probe \in ProbeOutcomes :
        HealthCheck(probe) =>
            /\ hresponse'.status = 200
            /\ hresponse'.avifenc <=> probe = "exit 0"
            /\ hresponse'.healthy <=> hresponse'.avifenc
C14_HealthAlways200 ==
    /\ [](hpc = "done" => hresponse.status = 200 /\ (hresponse.healthy <=> hresponse.avifenc))
    /\ [][HealthAnswer]_vars
\* /health has answered 200 "unhealthy" (the probe did not exit with zero)
C14_Witness ==
    /\ hpc = "done"
    /\ hresponse = [status |-> 200, healthy |-> FALSE, avifenc |-> FALSE]

\* t tenths of a percent is (1 - c/o) * 100 rounded to one decimal: 1000 - t
\* is one of the two integers around 1000 * c / o and is at most 1/2 from it
NearestTenth(t, c, o) ==
    LET q == (1000 * c) \div o
        rem == (1000 * c) % o
    IN  \/ 1000 - t = q /\ 2 * rem <= o
        \/ 1000 - t = q + 1 /\ 2 * (o - rem) <= o

\* C15: in every 200 response of POST /convert, converted_size is the length of
\* the AVIF data in the response, original_size is the length of the upload and
\* compression_ratio is round((1 - converted_size/original_size) * 100, 1),
\* whichever attempt produced the bytes; the success callback carries the same
\* three values as fileSize, originalSize and compressionRatio.
C15_SizesAndRatio ==
    \A r \in Requests :
        response[r].status = 200 =>
            LET resp == response[r]
            IN  /\ resp.converted_size = resp.avif_data.len
                /\ resp.avif_data.len = conv[r].result.len
                /\ resp.original_size = upload[r].size
                /\ NearestTenth(resp.compression_ratio,
                                resp.converted_size, resp.original_size)
                /\ Len(callbacks[r]) = 1
                /\ callbacks[r][1].success
                /\ callbacks[r][1].fileSize = resp.converted_size
                /\ callbacks[r][1].originalSize = resp.original_size
                /\ callbacks[r][1].compressionRatio = resp.compression_ratio
\* a 200 response for a 3-byte upload converted by a fallback attempt to 1
\* byte: compression_ratio 66.7
C15_Witness ==
    \E r \in Requests :
        /\ response[r].status = 200
        /\ response[r].original_size = 3
        /\ response[r].converted_size = 1
        /\ response[r].compression_ratio = 667
        /\ response[r].avif_data.by > 1

\* C16: a zero-length upload that passes type validation is never answered
\* 200: convert never returns bytes for it (the division by the input length
\* fails in every strategy whose tool wrote an output), every attempt counts
\* as failed, and the request ends with a 500 and one failure callback that
\* carries the converter's aggregated error, not a division error raised at
\* the handler's own ratio computation.
C16_EmptyUploadFails ==
    \A r \in Requests :
        (upload[r].size = 0 /\ pc[r] \notin {"idle", "received"} /\ IsHeic(upload[r])) =>
            /\ conv[r].result.kind # "bytes"
            /\ response[r].status # 200
            /\ ConvertOver(r) => AllAttemptsFailed(r) /\ stage[r] = "except"
            /\ pc[r] = "done" =>
                  /\ response[r] = Failed500(conv[r].result)
                  /\ conv[r].result = AllFailed(conv[r].last.at, conv[r].last.why)
                  /\ conv[r].result # ZeroDivisionError
                  /\ callbacks[r] = <<FailurePayload(upload[r], conv[r].result)>>
\* an empty upload answered 500 although the last tool exited zero and wrote an
\* output file: the last attempt failed at the division
C16_Witness ==
    \E r \in Requests :
        /\ upload[r].size = 0
        /\ pc[r] = "done"
        /\ response[r].status = 500
        /\ conv[r].last.why = "division by zero"
        /\ Len(callbacks[r]) = 1

\* C17: for every filename that passes validation, the convertedFilename of
\* the success callback ends in .avif and differs from originalFilename.
C17_ConvertedFilenameIsAvif ==
    \A r \in Requests :
        \A i \in DOMAIN callbacks[r] :
            callbacks[r][i].success =>
                /\ callbacks[r][i].convertedFilename.given
                /\ EndsWith(callbacks[r][i].convertedFilename.s, DotAvif)
                /\ callbacks[r][i].convertedFilename.s # callbacks[r][i].originalFilename
====
